---- MODULE Spec2Model ----
(***************************************************************************)
(* Feed reconciliation of the product catalogue.  The repository holds two *)
(* sync scripts that rebuild products.json (active set) and archive.json   *)
(* (archive set) from a fetched CSV feed:                                  *)
(*   - src/scripts/sync_products.mjs (its header calls it sync_from_csv),  *)
(*     modelled by the main_* actions;                                     *)
(*   - src/unnamed/part_000 (its header calls it scripts/sync_products),   *)
(*     modelled by the sync_* actions.                                     *)
(* Trimming, case conversion, substring search and CSV parsing are         *)
(* computed character by character on the strings.                         *)
(***************************************************************************)
EXTENDS Integers, Sequences, FiniteSets, TLC

VARIABLES
    script,         \* which script the deployment runs: "sync_from_csv" | "sync_products"
    products_json,  \* products.json on disk: the persisted active array
    archive_json,   \* archive.json on disk: the persisted archive array
    pc,             \* position of the running script
    clock,          \* wall clock read by nowISO(); one tick per run
    csvText,        \* local csvText: the fetched feed body
    prevProducts,   \* local prevProducts: products.json as read by this run
    prevArchive,    \* local prevArchive: archive.json as read by this run
    nextProducts,   \* local newProducts / nextProducts: the sorted new active array
    nextArchive,    \* local newArchive / nextArchive: the sorted new archive array
    exitCode,       \* process exit status of the last run: "none" | 0 | 1
    candX,          \* a candidate record handed to pickBetter (resolver specification)
    candY,          \* the candidate record colliding with it
    kept,           \* the records pickBetter returned for the two orders
    cellStatus,     \* the status cell of a feed row (classifier specification)
    cellAsin,       \* the asin cell of that row
    verdict,        \* how the script's row loop classified the row
    pages,          \* the preview pages on disk under /p: path and og:image of each
    ogFiles,        \* the downloaded images on disk under /og: their paths market/asin
    snapshots,      \* the snapshots written by runs that started without prior state
    fetchStack,     \* fetchTextWithRetry: the calls in progress, the innermost last
    fetchCount,     \* fetchTextWithRetry: requests issued so far, per URL
    fetchResult     \* fetchTextWithRetry: what the call that ended last returned or threw

vars == <<script, products_json, archive_json, pc, clock, csvText, prevProducts,
          prevArchive, nextProducts, nextArchive, exitCode, candX, candY,
          kept, cellStatus, cellAsin, verdict, pages, ogFiles, snapshots, fetchStack,
          fetchCount, fetchResult>>

runVars == <<script, products_json, archive_json, pc, clock, csvText, prevProducts,
             prevArchive, nextProducts, nextArchive, exitCode, pages, ogFiles>>

pickVars == <<candX, candY, kept>>

classVars == <<cellStatus, cellAsin, verdict>>

freshVars == <<snapshots>>

fetchVars == <<fetchStack, fetchCount, fetchResult>>

(***************************************************************************)
(* JavaScript string primitives.  A JavaScript string is a TLA+ string; its *)
(* i-th character is SubSeq(s, i, i).                                      *)
(***************************************************************************)

\* the value of a missing property or array slot; no string of the model equals it
undefined == "<undefined>"

lowerLetters == "abcdefghijklmnopqrstuvwxyz"

upperLetters == "ABCDEFGHIJKLMNOPQRSTUVWXYZ"

digits == "0123456789"

\* String.prototype.trim strips these (the ones that occur in the model)
whitespace == {" ", "\t", "\n", "\r"}

charAt(s, i) == SubSeq(s, i, i)

\* the position of character c in string s, 0 when it does not occur
indexOfChar(s, c) ==
    IF \E i \in 1..Len(s) : charAt(s, i) = c
    THEN CHOOSE i \in 1..Len(s) : charAt(s, i) = c /\ \A j \in 1..(i - 1) : charAt(s, j) # c
    ELSE 0

\* the letters as sets of characters
lowerLetterSet == {charAt(lowerLetters, i) : i \in 1..Len(lowerLetters)}

upperLetterSet == {charAt(upperLetters, i) : i \in 1..Len(upperLetters)}

upperChar(c) ==
    IF c \in lowerLetterSet THEN charAt(upperLetters, indexOfChar(lowerLetters, c)) ELSE c

lowerChar(c) ==
    IF c \in upperLetterSet THEN charAt(lowerLetters, indexOfChar(upperLetters, c)) ELSE c

RECURSIVE toUpperCase(_)
toUpperCase(s) ==
    IF s = "" THEN "" ELSE upperChar(charAt(s, 1)) \o toUpperCase(SubSeq(s, 2, Len(s)))

RECURSIVE toLowerCase(_)
toLowerCase(s) ==
    IF s = "" THEN "" ELSE lowerChar(charAt(s, 1)) \o toLowerCase(SubSeq(s, 2, Len(s)))

SetMin(S) == CHOOSE x \in S : \A y \in S : x <= y

SetMax(S) == CHOOSE x \in S : \A y \in S : y <= x

trim(s) ==
    LET idx == {i \in 1..Len(s) : charAt(s, i) \notin whitespace}
    IN  IF idx = {} THEN "" ELSE SubSeq(s, SetMin(idx), SetMax(idx))

\* String.prototype.includes
includes(s, t) == \E i \in 0..(Len(s) - Len(t)) : SubSeq(s, i + 1, i + Len(t)) = t

\* String.prototype.startsWith
startsWith(s, t) == Len(s) >= Len(t) /\ SubSeq(s, 1, Len(t)) = t

\* String.prototype.slice(0, n)
slice0(s, n) == SubSeq(s, 1, IF Len(s) < n THEN Len(s) ELSE n)

\* a || b on strings and undefined: the first operand unless it is falsy
OrElse(a, b) == IF a # undefined /\ a # "" THEN a ELSE b

\* a ?? b: the first operand unless it is undefined
Nullish(a, b) == IF a # undefined THEN a ELSE b

\* {...a, ...b}: object spread, the later object's properties win
Spread(a, b) == [f \in (DOMAIN a) \cup (DOMAIN b) |-> IF f \in DOMAIN b THEN b[f] ELSE a[f]]

Range(s) == {s[i] : i \in 1..Len(s)}

(***************************************************************************)
(* String.prototype.localeCompare on strings of ASCII letters and digits:  *)
(* digits sort before letters, letters in alphabetical order regardless of *)
(* case, and only when the two strings are equal up to case does the first *)
(* case difference decide, lower case first.                               *)
(***************************************************************************)
collationRank(c) ==
    LET l == lowerChar(c)
    IN  IF indexOfChar(digits, l) > 0 THEN indexOfChar(digits, l)
        ELSE IF indexOfChar(lowerLetters, l) > 0 THEN 10 + indexOfChar(lowerLetters, l)
        ELSE 0

caseRank(c) == IF indexOfChar(upperLetters, c) > 0 THEN 1 ELSE 0

\* lexicographic comparison of two sequences of numbers: -1, 0 or 1
lexCompare(a, b) ==
    LET n == IF Len(a) < Len(b) THEN Len(a) ELSE Len(b)
        diff == {i \in 1..n : a[i] # b[i]}
    IN  IF diff # {}
        THEN (IF a[SetMin(diff)] < b[SetMin(diff)] THEN -1 ELSE 1)
        ELSE IF Len(a) < Len(b) THEN -1 ELSE IF Len(a) > Len(b) THEN 1 ELSE 0

localeCompare(a, b) ==
    LET primary == lexCompare([i \in 1..Len(a) |-> collationRank(charAt(a, i))],
                              [i \in 1..Len(b) |-> collationRank(charAt(b, i))])
    IN  IF primary # 0 THEN primary
        ELSE lexCompare([i \in 1..Len(a) |-> caseRank(charAt(a, i))],
                        [i \in 1..Len(b) |-> caseRank(charAt(b, i))])

(***************************************************************************)
(* Map: a JavaScript Map as the sequence of its entries in insertion order *)
(***************************************************************************)
MapHas(m, k) == \E i \in 1..Len(m) : m[i].key = k

MapGet(m, k) == IF MapHas(m, k) THEN m[CHOOSE i \in 1..Len(m) : m[i].key = k].value ELSE undefined

MapSet(m, k, v) ==
    IF MapHas(m, k)
    THEN [i \in 1..Len(m) |-> IF m[i].key = k THEN [key |-> k, value |-> v] ELSE m[i]]
    ELSE Append(m, [key |-> k, value |-> v])

MapValues(m) == [i \in 1..Len(m) |-> m[i].value]

MapKeys(m) == {m[i].key : i \in 1..Len(m)}

(***************************************************************************)
(* CSV parsing (both scripts run the same character loop)                  *)
(***************************************************************************)

\* one iteration of parseCSV's while loop on the parser state st = [i, field, row,
\* rows, inQuotes] (i is one more than the JavaScript index); no change once the
\* loop condition i < text.length is false
parseStep(text, delimiter, st) ==
    IF st.i > Len(text) THEN st
    ELSE LET c == charAt(text, st.i) IN
         IF st.inQuotes
         THEN IF c = "\""
              THEN IF st.i < Len(text) /\ charAt(text, st.i + 1) = "\""
                   THEN [st EXCEPT !.field = st.field \o "\"", !.i = st.i + 2]
                   ELSE [st EXCEPT !.inQuotes = FALSE, !.i = st.i + 1]
              ELSE [st EXCEPT !.field = st.field \o c, !.i = st.i + 1]
         ELSE IF c = "\"" THEN [st EXCEPT !.inQuotes = TRUE, !.i = st.i + 1]
         ELSE IF c = delimiter
              THEN [st EXCEPT !.row = Append(st.row, st.field), !.field = "", !.i = st.i + 1]
         ELSE IF c = "\r" THEN [st EXCEPT !.i = st.i + 1]
         ELSE IF c = "\n"
              THEN [st EXCEPT !.rows = Append(st.rows, Append(st.row, st.field)),
                              !.row = <<>>, !.field = "", !.i = st.i + 1]
         ELSE [st EXCEPT !.field = st.field \o c, !.i = st.i + 1]

\* n iterations of the while loop, split in halves to keep the evaluation shallow
RECURSIVE parseSteps(_, _, _, _)
parseSteps(text, delimiter, st, n) ==
    IF n = 0 THEN st
    ELSE IF n = 1 THEN parseStep(text, delimiter, st)
    ELSE LET half == parseSteps(text, delimiter, st, n \div 2)
         IN  IF half.i >= 1   \* always true: it has the first half evaluated here
             THEN parseSteps(text, delimiter, half, n - (n \div 2))
             ELSE half

\* the while loop run to its end: it takes at most text.length iterations
parseLoop(text, delimiter) ==
    parseSteps(text, delimiter,
               [i |-> 1, field |-> "", row |-> <<>>, rows |-> <<>>, inQuotes |-> FALSE],
               Len(text))

\* an absent object: undefined where an object is expected, and the {} of (prev || {})
noObject == <<>>

(***************************************************************************)
(* src/scripts/sync_products.mjs (sync_from_csv): helpers                  *)
(***************************************************************************)
nowISO == clock

safeUpper(s) == toUpperCase(trim(OrElse(s, "")))

normStr(s) == trim(Nullish(s, ""))

makeKey(market, asin) == safeUpper(market) \o "::" \o trim(normStr(asin))

looksLikeHTML(text) ==
    LET t == toLowerCase(slice0(OrElse(text, ""), 400))
    IN  includes(t, "<html") \/ includes(t, "<!doctype") \/ includes(t, "<body")
          \/ includes(t, "</html>")

headerContainsAsin(headerLine) == includes(toLowerCase(headerLine), "asin")

\* the number of occurrences of character c in s
countChar(s, c) == Cardinality({i \in 1..Len(s) : charAt(s, i) = c})

detectDelimiter(headerLine) ==
    IF countChar(headerLine, ";") > countChar(headerLine, ",") THEN ";" ELSE ","

\* csvText.split(/\n/)[0]
firstLineOf(text) ==
    LET k == indexOfChar(text, "\n") IN IF k = 0 THEN text ELSE SubSeq(text, 1, k - 1)

\* rows.pop() while the last row has only blank cells
RECURSIVE dropTrailingEmptyRows(_)
dropTrailingEmptyRows(rows) ==
    IF rows # <<>> /\ \A j \in 1..Len(rows[Len(rows)]) : normStr(rows[Len(rows)][j]) = ""
    THEN dropTrailingEmptyRows(SubSeq(rows, 1, Len(rows) - 1))
    ELSE rows

\* parseCSV(text, delimiter) of sync_from_csv
parseCSV_delimiter(text, delimiter) ==
    LET st == parseLoop(text, delimiter)
    IN  dropTrailingEmptyRows(Append(st.rows, Append(st.row, st.field)))

\* s.replace(/\s+/g, " ")
RECURSIVE collapseWhitespace(_)
collapseWhitespace(s) ==
    IF s = "" THEN ""
    ELSE IF charAt(s, 1) \in whitespace
         THEN IF Len(s) > 1 /\ charAt(s, 2) \in whitespace
              THEN collapseWhitespace(SubSeq(s, 2, Len(s)))
              ELSE " " \o collapseWhitespace(SubSeq(s, 2, Len(s)))
         ELSE charAt(s, 1) \o collapseWhitespace(SubSeq(s, 2, Len(s)))

normalizeHeader(h) == trim(collapseWhitespace(toLowerCase(normStr(h))))

\* the alias(name, alternatives) calls of buildHeaderMap, in order
headerAliases ==
    << [name |-> "market",         alternatives |-> <<"Market", "country", "Country", "site", "Site">>],
       [name |-> "asin",           alternatives |-> <<"ASIN", "Asin">>],
       [name |-> "title",          alternatives |-> <<"Title", "name", "Name">>],
       [name |-> "link",           alternatives |-> <<"Link", "url", "URL">>],
       [name |-> "image_url",      alternatives |-> <<"image", "Image", "image url", "Image URL", "image_url">>],
       [name |-> "remark",         alternatives |-> <<"Remark", "note", "Note">>],
       [name |-> "status",         alternatives |-> <<"Status", "state", "State">>],
       [name |-> "discount price", alternatives |-> <<"Discount Price", "discount", "Discount">>],
       [name |-> "commission",     alternatives |-> <<"Commission", "fee", "Fee">>] >>

\* alias(name, alternatives): the first alternative the map has lends its index
alias(map, name, alternatives) ==
    IF name \in DOMAIN map THEN map
    ELSE LET hits == {j \in 1..Len(alternatives) : normalizeHeader(alternatives[j]) \in DOMAIN map}
         IN  IF hits = {} THEN map
             ELSE (name :> map[normalizeHeader(alternatives[SetMin(hits)])]) @@ map

RECURSIVE applyAliases(_, _)
applyAliases(map, n) ==
    IF n = 0 THEN map
    ELSE alias(applyAliases(map, n - 1), headerAliases[n].name, headerAliases[n].alternatives)

\* header name -> column (1-based); a later column of the same name wins
buildHeaderMap(headers) ==
    LET names == {normalizeHeader(headers[j]) : j \in 1..Len(headers)}
        base  == [h \in names |-> SetMax({j \in 1..Len(headers) : normalizeHeader(headers[j]) = h})]
    IN  applyAliases(base, Len(headerAliases))

getField(row, headerMap, key) ==
    IF key \notin DOMAIN headerMap THEN ""
    ELSE IF headerMap[key] <= Len(row) THEN row[headerMap[key]] ELSE ""

offlineTokens ==
    <<"off", "offline", "inactive", "disabled", "down", "removed", "delete", "deleted",
      "0", "false", "no", "stop", "stopped">>

isOfflineByStatus(raw) ==
    LET s == toLowerCase(normStr(raw))
    IN  IF s = "" THEN FALSE
        ELSE \E j \in 1..Len(offlineTokens) : s = offlineTokens[j] \/ includes(s, offlineTokens[j])

\* the comparator of both output sorts of sync_from_csv
compareByMarketAsin(a, b) ==
    IF a.market # b.market THEN localeCompare(a.market, b.market)
    ELSE localeCompare(a.asin, b.asin)

\* Array.prototype.sort with that comparator (a stable sort): element i goes after
\* every element that compares smaller, and after the equal ones that precede it
sortedByMarketAsin(arr) ==
    LET before(i) == Cardinality({j \in 1..Len(arr) :
                        \/ compareByMarketAsin(arr[j], arr[i]) < 0
                        \/ (compareByMarketAsin(arr[j], arr[i]) = 0 /\ j < i)})
    IN  [k \in 1..Len(arr) |-> arr[CHOOSE i \in 1..Len(arr) : before(i) = k - 1]]

(***************************************************************************)
(* src/scripts/sync_products.mjs (sync_from_csv): main, steps 1, 3 and 4   *)
(***************************************************************************)

\* a faulty archive load that starts every run from an empty archiveMap
loadArchiveMap_forgetting(arr, n) == <<>>

\* step 1: archiveMap from the previous archive.json
RECURSIVE loadArchiveMap(_, _)
loadArchiveMap(arr, n) ==
    IF n = 0 THEN <<>>
    ELSE LET m   == loadArchiveMap(arr, n - 1)
             key == makeKey(arr[n].market, arr[n].asin)
         IN  IF ~includes(key, "::") THEN m ELSE MapSet(m, key, arr[n])

\* step 1: prevActiveMap from the previous products.json
RECURSIVE loadPrevActiveMap(_, _)
loadPrevActiveMap(arr, n) ==
    IF n = 0 THEN <<>>
    ELSE MapSet(loadPrevActiveMap(arr, n - 1), makeKey(arr[n].market, arr[n].asin), arr[n])

\* step 3: the item built from one CSV row
csvItem(row, headerMap) ==
    [ market         |-> safeUpper(getField(row, headerMap, "market")),
      asin           |-> trim(normStr(getField(row, headerMap, "asin"))),
      title          |-> normStr(getField(row, headerMap, "title")),
      link           |-> normStr(getField(row, headerMap, "link")),
      image_url      |-> normStr(getField(row, headerMap, "image_url")),
      remark         |-> normStr(getField(row, headerMap, "remark")),
      discount_price |-> normStr(getField(row, headerMap, "discount price")),
      commission     |-> normStr(getField(row, headerMap, "commission")),
      status         |-> normStr(getField(row, headerMap, "status")),
      updated_at     |-> nowISO ]

\* step 3, offline branch: the row goes to the archive, merged over what was known
offlineUpsert(archiveMap, prevActiveMap, key, item) ==
    LET prev == IF MapHas(archiveMap, key) THEN MapGet(archiveMap, key)
                ELSE IF MapHas(prevActiveMap, key) THEN MapGet(prevActiveMap, key)
                ELSE noObject
    IN  MapSet(archiveMap, key,
               Spread(Spread(prev, item),
                      [archived_reason |-> "status_offline", archived_at |-> nowISO,
                       last_seen_at |-> nowISO]))

\* step 3, active branch: an archive entry of the same key has its last_seen_at refreshed
touchArchive(archiveMap, key) ==
    IF MapHas(archiveMap, key)
    THEN MapSet(archiveMap, key, Spread(MapGet(archiveMap, key), [last_seen_at |-> nowISO]))
    ELSE archiveMap

\* step 3: the body of the row loop, on st = [newActiveMap, archiveMap]
csvRowStep(st, row, headerMap, prevActiveMap) ==
    LET item == csvItem(row, headerMap)
        key  == makeKey(item.market, item.asin)
    IN  IF item.market = "" \/ item.asin = "" THEN st
        ELSE IF isOfflineByStatus(getField(row, headerMap, "status"))
             THEN [st EXCEPT !.archiveMap = offlineUpsert(st.archiveMap, prevActiveMap, key, item)]
             ELSE [newActiveMap |-> MapSet(st.newActiveMap, key, item),
                   archiveMap   |-> touchArchive(st.archiveMap, key)]

\* step 3: the row loop over grid[1..], after r rows of the grid (the header is row 1)
RECURSIVE csvRowLoop(_, _, _, _, _)
csvRowLoop(grid, r, headerMap, prevActiveMap, archiveMap) ==
    IF r <= 1 THEN [newActiveMap |-> <<>>, archiveMap |-> archiveMap]
    ELSE csvRowStep(csvRowLoop(grid, r - 1, headerMap, prevActiveMap, archiveMap),
                    grid[r], headerMap, prevActiveMap)

\* a faulty step 4 that archives every previously active item, still active or not
RECURSIVE removedFromCsv_ignoringActive(_, _, _, _)
removedFromCsv_ignoringActive(archiveMap, prevActiveMap, newActiveMap, n) ==
    IF n = 0 THEN archiveMap
    ELSE LET m        == removedFromCsv_ignoringActive(archiveMap, prevActiveMap, newActiveMap, n - 1)
             key      == prevActiveMap[n].key
             prevItem == prevActiveMap[n].value
             prev     == IF MapHas(m, key) THEN MapGet(m, key) ELSE prevItem
         IN  MapSet(m, key,
                    Spread(Spread(prev, prevItem),
                           [archived_reason |-> "removed_from_csv",
                            archived_at |-> nowISO, last_seen_at |-> nowISO]))

\* step 4: every previously active item that is not in newActiveMap is archived
RECURSIVE removedFromCsv(_, _, _, _)
removedFromCsv(archiveMap, prevActiveMap, newActiveMap, n) ==
    IF n = 0 THEN archiveMap
    ELSE LET m        == removedFromCsv(archiveMap, prevActiveMap, newActiveMap, n - 1)
             key      == prevActiveMap[n].key
             prevItem == prevActiveMap[n].value
             prev     == IF MapHas(m, key) THEN MapGet(m, key) ELSE prevItem
         IN  IF MapHas(newActiveMap, key) THEN m
             ELSE MapSet(m, key,
                         Spread(Spread(prev, prevItem),
                                [archived_reason |-> "removed_from_csv",
                                 archived_at |-> nowISO, last_seen_at |-> nowISO]))

\* the parsed grid of step 2
csvGrid(text) == parseCSV_delimiter(text, detectDelimiter(firstLineOf(text)))

\* the input checks of step 2: the run exits with status 1 when one of them fails
csvRejected(text) ==
    \/ text = "" \/ Len(normStr(text)) < 10
    \/ looksLikeHTML(text)
    \/ ~headerContainsAsin(firstLineOf(text))
    \/ Len(csvGrid(text)) < 2

\* the header map of step 2
csvHeaderMap(grid) == buildHeaderMap([j \in 1..Len(grid[1]) |-> normStr(grid[1][j])])

\* a faulty reconciliation that keeps the previously active items the feed no
\* longer has in the new active array
csvReconcile_carryingOver(text, prevProductsArr, prevArchiveArr) ==
    LET grid          == csvGrid(text)
        headerMap     == csvHeaderMap(grid)
        prevActiveMap == loadPrevActiveMap(prevProductsArr, Len(prevProductsArr))
        archive0      == loadArchiveMap(prevArchiveArr, Len(prevArchiveArr))
        st            == csvRowLoop(grid, Len(grid), headerMap, prevActiveMap, archive0)
        carried       == SelectSeq(prevProductsArr,
                             LAMBDA q : ~MapHas(st.newActiveMap, makeKey(q.market, q.asin)))
    IN  [ newProducts |-> sortedByMarketAsin(MapValues(st.newActiveMap) \o carried),
          newArchive  |-> sortedByMarketAsin(MapValues(st.archiveMap)) ]

\* steps 3 to 5 on the maps of step 1: the two arrays the run writes
csvReconcile(text, prevProductsArr, prevArchiveArr) ==
    LET grid          == csvGrid(text)
        headerMap     == csvHeaderMap(grid)
        prevActiveMap == loadPrevActiveMap(prevProductsArr, Len(prevProductsArr))
        archive0      == loadArchiveMap(prevArchiveArr, Len(prevArchiveArr))
        st            == csvRowLoop(grid, Len(grid), headerMap, prevActiveMap, archive0)
        archive1      == removedFromCsv(st.archiveMap, prevActiveMap, st.newActiveMap,
                                        Len(prevActiveMap))
    IN  [ newProducts |-> sortedByMarketAsin(MapValues(st.newActiveMap)),
          newArchive  |-> sortedByMarketAsin(MapValues(archive1)) ]

(***************************************************************************)
(* src/unnamed/part_000 (scripts/sync_products): helpers                   *)
(***************************************************************************)
norm(s) == trim(Nullish(s, ""))

upper(s) == toUpperCase(norm(s))

normalizeMarket(v) == upper(v)

normalizeAsin(v) == upper(v)

isValidHttpUrl(u) ==
    LET t == toLowerCase(norm(u)) IN startsWith(t, "http://") \/ startsWith(t, "https://")

normalizeUrl(v) == IF norm(v) # "" /\ isValidHttpUrl(norm(v)) THEN norm(v) ELSE ""

\* parseCSV(text) of sync_products: the delimiter is the comma
parseCSV(text) ==
    LET st == parseLoop(text, ",")
    IN  IF Len(st.field) > 0 \/ Len(st.row) > 0
        THEN Append(st.rows, Append(st.row, st.field))
        ELSE st.rows

\* the object of one row: header -> trimmed cell; a later column of the same name wins
mapRow(headers, cells) ==
    [h \in Range(headers) |->
        LET idx == SetMax({j \in 1..Len(headers) : headers[j] = h})
        IN  norm(IF idx <= Len(cells) THEN cells[idx] ELSE "")]

\* o.name: undefined when the row object has no such property
prop(o, name) == IF name \in DOMAIN o THEN o[name] ELSE undefined

activeStatuses ==
    <<"1", "true", "yes", "on", "active", "enabled", "publish", "published", "online">>

isActiveStatus(v) ==
    LET s == toLowerCase(norm(v))
    IN  IF s = "" THEN TRUE ELSE \E j \in 1..Len(activeStatuses) : activeStatuses[j] = s

isAllDigits(s) ==
    LET x == norm(s)
    IN  x # "" /\ \A i \in 1..Len(x) : indexOfChar(digits, charAt(x, i)) > 0

isNonAmazonByAsin(asin) == isAllDigits(asin)

keyOf(p) == upper(p.market) \o "|" \o upper(p.asin)

\* a faulty resolver whose image and title rules forget the rules before them
pickBetter_unguarded(existing, incoming) ==
    IF DOMAIN existing = {} THEN incoming
    ELSE LET exLink     == isValidHttpUrl(existing.link)
             inLink     == isValidHttpUrl(incoming.link)
             exImg      == norm(existing.image_url) # ""
             inImg      == norm(incoming.image_url) # ""
             exTitleLen == Len(norm(existing.title))
             inTitleLen == Len(norm(incoming.title))
         IN  IF ~exLink /\ inLink THEN incoming
             ELSE IF ~exImg /\ inImg THEN incoming
             ELSE IF inTitleLen > exTitleLen THEN incoming
             ELSE existing

pickBetter(existing, incoming) ==
    IF DOMAIN existing = {} THEN incoming
    ELSE LET exLink     == isValidHttpUrl(existing.link)
             inLink     == isValidHttpUrl(incoming.link)
             exImg      == norm(existing.image_url) # ""
             inImg      == norm(incoming.image_url) # ""
             exTitleLen == Len(norm(existing.title))
             inTitleLen == Len(norm(incoming.title))
         IN  IF ~exLink /\ inLink THEN incoming
             ELSE IF exLink = inLink /\ ~exImg /\ inImg THEN incoming
             ELSE IF exLink = inLink /\ exImg = inImg /\ inTitleLen > exTitleLen THEN incoming
             ELSE existing

\* the comparator of both output sorts of sync_products
compareMarketThenAsin(a, b) ==
    LET am == localeCompare(a.market, b.market)
    IN  IF am # 0 THEN am ELSE localeCompare(a.asin, b.asin)

\* Array.prototype.sort with that comparator (a stable sort): element i goes after
\* every element that compares smaller, and after the equal ones that precede it
sortedMarketThenAsin(arr) ==
    LET before(i) == Cardinality({j \in 1..Len(arr) :
                        \/ compareMarketThenAsin(arr[j], arr[i]) < 0
                        \/ (compareMarketThenAsin(arr[j], arr[i]) = 0 /\ j < i)})
    IN  [k \in 1..Len(arr) |-> arr[CHOOSE i \in 1..Len(arr) : before(i) = k - 1]]

(***************************************************************************)
(* src/unnamed/part_000 (scripts/sync_products): main                      *)
(***************************************************************************)

\* prevMap / archiveMap: the previous array keyed by keyOf
RECURSIVE mapByKeyOf(_, _)
mapByKeyOf(arr, n) ==
    IF n = 0 THEN <<>> ELSE MapSet(mapByKeyOf(arr, n - 1), keyOf(arr[n]), arr[n])

\* rows.slice(1).filter(...): the data rows that have a non-blank cell
hasNonBlankCell(r) == \E j \in 1..Len(r) : norm(r[j]) # ""

\* archiveMap.set(k, item) unless the archive already has the key
archiveIfAbsent(archiveMap, item) ==
    IF MapHas(archiveMap, keyOf(item)) THEN archiveMap ELSE MapSet(archiveMap, keyOf(item), item)

\* activeMap.set(k, ...) with the better record on a duplicate key
activeUpsert(activeMap, item) ==
    IF ~MapHas(activeMap, keyOf(item)) THEN MapSet(activeMap, keyOf(item), item)
    ELSE MapSet(activeMap, keyOf(item), pickBetter(MapGet(activeMap, keyOf(item)), item))

\* how the row loop treats a row with these asin and status cells
classifyRow(asin, statusVal) ==
    IF isNonAmazonByAsin(asin) THEN "non_amazon_numeric_asin"
    ELSE IF ~isActiveStatus(statusVal) THEN "inactive_status"
    ELSE "active"

\* the record built from one data row
syncRowItem(headers, r) ==
    LET o == mapRow(headers, r)
    IN  [ market    |-> normalizeMarket(OrElse(OrElse(prop(o, "market"), prop(o, "Market")),
                                               prop(o, "MARKET"))),
          asin      |-> normalizeAsin(OrElse(prop(o, "asin"), prop(o, "ASIN"))),
          title     |-> norm(OrElse(OrElse(prop(o, "title"), prop(o, "Title")), "")),
          link      |-> normalizeUrl(OrElse(prop(o, "link"), prop(o, "Link"))),
          image_url |-> norm(OrElse(OrElse(OrElse(OrElse(prop(o, "image_url"), prop(o, "image")),
                                                  prop(o, "Image")), prop(o, "imageUrl")), "")) ]

\* o.status ?? o.Status ?? o.STATUS
syncRowStatus(headers, r) ==
    LET o == mapRow(headers, r)
    IN  Nullish(Nullish(prop(o, "status"), prop(o, "Status")), prop(o, "STATUS"))

\* the body of the row loop, on st = [activeMap, archiveMap]
syncRowStep(st, headers, r) ==
    LET item  == syncRowItem(headers, r)
        class == classifyRow(item.asin, syncRowStatus(headers, r))
    IN  IF item.market = "" \/ item.asin = "" THEN st
        ELSE IF class = "active"
             THEN [st EXCEPT !.activeMap = activeUpsert(st.activeMap, item)]
             ELSE [st EXCEPT !.archiveMap =
                      archiveIfAbsent(st.archiveMap, Spread(item, [_hidden_reason |-> class]))]

\* the row loop after the first n data rows
RECURSIVE syncRowLoop(_, _, _, _)
syncRowLoop(headers, dataRows, n, archiveMap) ==
    IF n = 0 THEN [activeMap |-> <<>>, archiveMap |-> archiveMap]
    ELSE syncRowStep(syncRowLoop(headers, dataRows, n - 1, archiveMap), headers, dataRows[n])

\* a faulty removal step that archives none of the records that left the active set
removedFromActive_skipped(archiveMap, prevMap, nextKeys, n) == archiveMap

\* every previous product whose key is not among the next ones enters the archive
\* unless the archive has the key
RECURSIVE removedFromActive(_, _, _, _)
removedFromActive(archiveMap, prevMap, nextKeys, n) ==
    IF n = 0 THEN archiveMap
    ELSE LET m == removedFromActive(archiveMap, prevMap, nextKeys, n - 1)
         IN  IF prevMap[n].key \notin nextKeys /\ ~MapHas(m, prevMap[n].key)
             THEN MapSet(m, prevMap[n].key, prevMap[n].value)
             ELSE m

\* rows[0].map(norm)
syncHeaders(rows) == [j \in 1..Len(rows[1]) |-> norm(rows[1][j])]

\* rows.slice(1).filter(...)
syncDataRows(rows) == SelectSeq(SubSeq(rows, 2, Len(rows)), hasNonBlankCell)

\* from the parsed rows to the two arrays the run writes
syncReconcile(rows, prevProductsArr, prevArchiveArr) ==
    LET headers  == syncHeaders(rows)
        dataRows == syncDataRows(rows)
        prevMap  == mapByKeyOf(prevProductsArr, Len(prevProductsArr))
        archive0 == mapByKeyOf(prevArchiveArr, Len(prevArchiveArr))
        st       == syncRowLoop(headers, dataRows, Len(dataRows), archive0)
        products == sortedMarketThenAsin(MapValues(st.activeMap))
        nextKeys == {keyOf(products[j]) : j \in 1..Len(products)}
        archive1 == removedFromActive(st.archiveMap, prevMap, nextKeys, Len(prevMap))
    IN  [ nextProducts |-> products,
          nextArchive  |-> sortedMarketThenAsin(MapValues(archive1)) ]

(***************************************************************************)
(* src/unnamed/part_000 (scripts/sync_products): the /p page generator     *)
(***************************************************************************)

\* the most image downloads one run attempts
OG_MAX_PER_RUN == 120

\* safeHttps(url): a leading http:// becomes https://
safeHttps(url) ==
    IF startsWith(toLowerCase(norm(url)), "http://")
    THEN "https://" \o SubSeq(norm(url), 8, Len(norm(url)))
    ELSE norm(url)

\* downloadOgImageBestEffort: never throws; TRUE when an image file was stored.
\* `served` is the environment's part: one of the two attempts is answered with
\* an image of a known type and of 2048 bytes or more
downloadOgImageBestEffort(imageUrl, served) ==
    isValidHttpUrl(safeHttps(imageUrl)) /\ served

\* the directory of a page under /p, and of an image under /og
pageDir(market, asin) == toLowerCase(market) \o "/" \o asin

\* uniq: the first record of every keyOf among the first n of `all`
RECURSIVE uniqByKeyOf(_, _)
uniqByKeyOf(all, n) ==
    IF n = 0 THEN <<>>
    ELSE LET rest == uniqByKeyOf(all, n - 1)
         IN  IF \E i \in 1..Len(rest) : keyOf(rest[i]) = keyOf(all[n])
             THEN rest
             ELSE Append(rest, all[n])

\* the comparator of uniq.sort
comparePageOrder(a, b) ==
    IF upper(a.market) # upper(b.market) THEN localeCompare(upper(a.market), upper(b.market))
    ELSE IF upper(a.asin) # upper(b.asin) THEN localeCompare(upper(a.asin), upper(b.asin))
    ELSE 0

sortedForPages(arr) ==
    LET before(i) == Cardinality({j \in 1..Len(arr) :
                        \/ comparePageOrder(arr[j], arr[i]) < 0
                        \/ (comparePageOrder(arr[j], arr[i]) = 0 /\ j < i)})
    IN  [k \in 1..Len(arr) |-> arr[CHOOSE i \in 1..Len(arr) : before(i) = k - 1]]

\* one turn of the loop over uniq: the best-effort image, then the page, which is
\* written whatever became of the image
pageStep(st, p, served) ==
    LET market   == upper(p.market)
        asin     == upper(p.asin)
        img      == norm(p.image_url)
        dir      == pageDir(market, asin)
        existing == dir \in st.ogFiles
        tries    == ~existing /\ img # "" /\ st.ogTried < OG_MAX_PER_RUN
        stored   == tries /\ downloadOgImageBestEffort(img, served)
        ogImage  == IF existing \/ stored THEN "og/" \o dir ELSE "og-placeholder"
    IN  [ pages   |-> {q \in st.pages : q.path # dir} \cup {[path |-> dir, image |-> ogImage]},
          ogFiles |-> IF stored THEN st.ogFiles \cup {dir} ELSE st.ogFiles,
          ogTried |-> IF tries THEN st.ogTried + 1 ELSE st.ogTried ]

RECURSIVE pageLoop(_, _, _, _)
pageLoop(uniq, n, og, served) ==
    IF n = 0 THEN [pages |-> {}, ogFiles |-> og, ogTried |-> 0]
    ELSE pageStep(pageLoop(uniq, n - 1, og, served), uniq[n], served)

\* generatePPagesAndOgImages(activeList, archiveList): /p is removed and rebuilt,
\* /og is only added to
generatePPagesAndOgImages(activeList, archiveList, og, served) ==
    LET all  == SelectSeq(activeList \o archiveList, LAMBDA p : p.market # "" /\ p.asin # "")
        uniq == sortedForPages(uniqByKeyOf(all, Len(all)))
    IN  pageLoop(uniq, Len(uniq), og, served)

(***************************************************************************)
(* src/tools/generate_product_pages.mjs                                    *)
(***************************************************************************)

safeText(s) == trim(Nullish(s, ""))

\* ensureAbsUrl(u): the text when it starts with http:// or https://, else ""
ensureAbsUrl(u) ==
    LET t == safeText(u)
    IN  IF startsWith(toLowerCase(t), "http://") \/ startsWith(toLowerCase(t), "https://")
        THEN t ELSE ""

\* toWeserv(url): the proxy address of the image, its protocol cut off
toWeserv(url) ==
    LET t == toLowerCase(url)
        cleaned == IF startsWith(t, "https://") THEN SubSeq(url, 9, Len(url))
                   ELSE IF startsWith(t, "http://") THEN SubSeq(url, 8, Len(url))
                   ELSE url
    IN  "weserv?url=" \o cleaned

\* buildAsinKey(market, asin) when the key was met n times before: ASIN, ASIN_1, ...
buildAsinKey(asin, n) == IF n = 0 THEN asin ELSE asin \o "_" \o ToString(n)

\* one turn of the loop over the items of products.json
toolStep(st, it) ==
    LET market   == toUpperCase(safeText(prop(it, "market")))
        asin     == toUpperCase(safeText(prop(it, "asin")))
        imageUrl == ensureAbsUrl(prop(it, "image_url"))
        k        == market \o "|" \o asin
        n        == IF MapHas(st.counter, k) THEN MapGet(st.counter, k) ELSE 0
        dir      == pageDir(market, buildAsinKey(asin, n))
    IN  IF market = "" \/ asin = "" \/ imageUrl = "" THEN st
        ELSE [ pages   |-> {q \in st.pages : q.path # dir}
                             \cup {[path |-> dir, image |-> toWeserv(imageUrl)]},
               counter |-> MapSet(st.counter, k, n + 1) ]

RECURSIVE toolLoop(_, _)
toolLoop(items, n) ==
    IF n = 0 THEN [pages |-> {}, counter |-> <<>>]
    ELSE toolStep(toolLoop(items, n - 1), items[n])

(***************************************************************************)
(* The feed bodies a run may fetch                                         *)
(***************************************************************************)

\* data rows per feed body
MaxRows == 2

\* runs of the script in one behaviour
MaxRuns == 2

feedHeader == "market,asin,title,link,image_url,status"

\* the data lines feeds are built from: duplicates of one key that differ in link,
\* image and title, an offline row, an all-digit asin whose status says active, the
\* same identity in lower case, and a second key whose image is an absolute URL
feedLines ==
    { "US,B1,tv,http://a,i,",
      "US,B1,tvs,,,",
      "US,B1,pc,http://a,i,",
      "US,B1,tvs,http://a,i,",
      "US,B1,tv,http://a,i,off",
      "US,12,tv,http://a,i,active",
      "us,b1,tv,http://a,i,",
      "DE,C2,tv,http://a,http://i," }

RECURSIVE joinLines(_)
joinLines(lines) ==
    IF lines = <<>> THEN "" ELSE lines[1] \o "\n" \o joinLines(Tail(lines))

\* the header and up to MaxRows data lines
tabularFeeds ==
    { joinLines(<<feedHeader>> \o rows) :
        rows \in UNION { [1..n -> feedLines] : n \in 0..MaxRows } }

\* an empty body, an HTML error page, and an export without the asin column
invalidFeeds ==
    { "", "<html><body>login</body></html>", "market,id,status\nUS,B1,\n" }

Feeds == tabularFeeds \cup invalidFeeds

Scripts == {"sync_from_csv", "sync_products"}

(***************************************************************************)
(* State machine: one run after the other (runs are exclusive)             *)
(***************************************************************************)
idlePick == candX = noObject /\ candY = noObject /\ kept = <<>>

idleClass == cellStatus = "" /\ cellAsin = "" /\ verdict = ""

idleFresh == snapshots = <<>>

\* no call of fetchTextWithRetry in progress
idleFetch == fetchStack = <<>> /\ fetchCount = <<>> /\ fetchResult = noObject

\* before the first run: no snapshot file exists (both scripts read [] then)
idleRun ==
    /\ products_json = <<>>
    /\ archive_json = <<>>
    /\ pc = "idle"
    /\ clock = 0
    /\ csvText = ""
    /\ prevProducts = <<>>
    /\ prevArchive = <<>>
    /\ nextProducts = <<>>
    /\ nextArchive = <<>>
    /\ exitCode = -1
    /\ pages = {}
    /\ ogFiles = {}

Init ==
    /\ script \in Scripts
    /\ idleRun
    /\ idlePick
    /\ idleClass
    /\ idleFresh
    /\ idleFetch

\* sync_from_csv, steps 1 and 2: read both snapshots, then read the CSV
main_readInputs(body) ==
    /\ script = "sync_from_csv"
    /\ pc \in {"idle", "exited"}
    /\ clock < MaxRuns
    /\ clock' = clock + 1
    /\ prevProducts' = products_json
    /\ prevArchive' = archive_json
    /\ csvText' = body
    /\ nextProducts' = <<>>
    /\ nextArchive' = <<>>
    /\ exitCode' = -1
    /\ pc' = "loaded"
    /\ UNCHANGED <<script, pages, ogFiles, products_json, archive_json, pickVars, classVars, freshVars,
                   fetchVars>>

\* a faulty failure path that truncates products.json before it exits
main_fetchThrows_truncating ==
    /\ script = "sync_from_csv"
    /\ pc \in {"idle", "exited"}
    /\ clock < MaxRuns
    /\ clock' = clock + 1
    /\ prevProducts' = products_json
    /\ prevArchive' = archive_json
    /\ csvText' = undefined
    /\ nextProducts' = <<>>
    /\ nextArchive' = <<>>
    /\ products_json' = <<>>
    /\ exitCode' = 1
    /\ pc' = "exited"
    /\ UNCHANGED <<script, pages, ogFiles, archive_json, pickVars, classVars, freshVars,
                   fetchVars>>

\* sync_from_csv, steps 1 and 2 when readFile or fetchTextWithRetry throws: no body
\* is obtained, main's catch handler logs the error and exits with status 1
main_fetchThrows ==
    /\ script = "sync_from_csv"
    /\ pc \in {"idle", "exited"}
    /\ clock < MaxRuns
    /\ clock' = clock + 1
    /\ prevProducts' = products_json
    /\ prevArchive' = archive_json
    /\ csvText' = undefined
    /\ nextProducts' = <<>>
    /\ nextArchive' = <<>>
    /\ exitCode' = 1
    /\ pc' = "exited"
    /\ UNCHANGED <<script, pages, ogFiles, products_json, archive_json, pickVars, classVars,
                   freshVars, fetchVars>>

\* sync_from_csv, steps 2 to 5: check the body (exit 1 when it is rejected), build
\* the new active map and the archive map, sort them
main_reconcile ==
    /\ script = "sync_from_csv"
    /\ pc = "loaded"
    /\ IF csvRejected(csvText)
       THEN /\ pc' = "exited"
            /\ exitCode' = 1
            /\ UNCHANGED <<nextProducts, nextArchive>>
       ELSE LET out == csvReconcile(csvText, prevProducts, prevArchive)
            IN  /\ nextProducts' = out.newProducts
                /\ nextArchive' = out.newArchive
                /\ pc' = "write_products"
                /\ UNCHANGED exitCode
    /\ UNCHANGED <<script, pages, ogFiles, products_json, archive_json, clock, csvText, prevProducts,
                   prevArchive, pickVars, classVars, freshVars,
                   fetchVars>>

\* sync_from_csv, step 5: writeFile(PRODUCTS_JSON)
main_writeProducts ==
    /\ script = "sync_from_csv"
    /\ pc = "write_products"
    /\ products_json' = nextProducts
    /\ pc' = "write_archive"
    /\ UNCHANGED <<script, pages, ogFiles, archive_json, clock, csvText, prevProducts, prevArchive,
                   nextProducts, nextArchive, exitCode, pickVars, classVars, freshVars,
                   fetchVars>>

\* sync_from_csv, step 5: writeFile(ARCHIVE_JSON), then the run ends
main_writeArchive ==
    /\ script = "sync_from_csv"
    /\ pc = "write_archive"
    /\ archive_json' = nextArchive
    /\ pc' = "exited"
    /\ exitCode' = 0
    /\ UNCHANGED <<script, pages, ogFiles, products_json, clock, csvText, prevProducts, prevArchive,
                   nextProducts, nextArchive, pickVars, classVars, freshVars,
                   fetchVars>>

\* sync_products: fetchText(CSV_URL)
sync_fetchText(body) ==
    /\ script = "sync_products"
    /\ pc \in {"idle", "exited"}
    /\ clock < MaxRuns
    /\ clock' = clock + 1
    /\ csvText' = body
    /\ prevProducts' = <<>>
    /\ prevArchive' = <<>>
    /\ nextProducts' = <<>>
    /\ nextArchive' = <<>>
    /\ exitCode' = -1
    /\ pc' = "fetched"
    /\ UNCHANGED <<script, pages, ogFiles, products_json, archive_json, pickVars, classVars, freshVars,
                   fetchVars>>

\* sync_from_csv, step 5 when writeFile(PRODUCTS_JSON) throws: nothing is written,
\* main's catch handler exits with status 1
main_writeProductsThrows ==
    /\ script = "sync_from_csv"
    /\ pc = "write_products"
    /\ pc' = "exited"
    /\ exitCode' = 1
    /\ UNCHANGED <<script, pages, ogFiles, products_json, archive_json, clock, csvText,
                   prevProducts, prevArchive, nextProducts, nextArchive, pickVars,
                   classVars, freshVars, fetchVars>>

\* sync_from_csv, step 5 when writeFile(ARCHIVE_JSON) throws after products.json
\* was written: main's catch handler exits with status 1
main_writeArchiveThrows ==
    /\ script = "sync_from_csv"
    /\ pc = "write_archive"
    /\ pc' = "exited"
    /\ exitCode' = 1
    /\ UNCHANGED <<script, pages, ogFiles, products_json, archive_json, clock, csvText,
                   prevProducts, prevArchive, nextProducts, nextArchive, pickVars,
                   classVars, freshVars, fetchVars>>

\* sync_products when fetch rejects or the response is not ok: fetchText throws,
\* main's catch handler logs the error and exits with status 1
sync_fetchThrows ==
    /\ script = "sync_products"
    /\ pc \in {"idle", "exited"}
    /\ clock < MaxRuns
    /\ clock' = clock + 1
    /\ csvText' = undefined
    /\ prevProducts' = <<>>
    /\ prevArchive' = <<>>
    /\ nextProducts' = <<>>
    /\ nextArchive' = <<>>
    /\ exitCode' = 1
    /\ pc' = "exited"
    /\ UNCHANGED <<script, pages, ogFiles, products_json, archive_json, pickVars, classVars,
                   freshVars, fetchVars>>

\* sync_products: parse the body (throw when it has no rows), read both snapshots,
\* build the active map and the archive map, sort them
sync_rebuild ==
    /\ script = "sync_products"
    /\ pc = "fetched"
    /\ IF parseCSV(csvText) = <<>>
       THEN /\ pc' = "exited"
            /\ exitCode' = 1
            /\ UNCHANGED <<prevProducts, prevArchive, nextProducts, nextArchive>>
       ELSE /\ prevProducts' = products_json
            /\ prevArchive' = archive_json
            /\ nextProducts' = syncReconcile(parseCSV(csvText), products_json, archive_json).nextProducts
            /\ nextArchive' = syncReconcile(parseCSV(csvText), products_json, archive_json).nextArchive
            /\ pc' = "write_products"
            /\ UNCHANGED exitCode
    /\ UNCHANGED <<script, pages, ogFiles, products_json, archive_json, clock, csvText, pickVars, classVars, freshVars,
                   fetchVars>>

\* sync_products: writeJsonPretty(PRODUCTS_PATH, nextProducts)
sync_writeProducts ==
    /\ script = "sync_products"
    /\ pc = "write_products"
    /\ products_json' = nextProducts
    /\ pc' = "write_archive"
    /\ UNCHANGED <<script, pages, ogFiles, archive_json, clock, csvText, prevProducts, prevArchive,
                   nextProducts, nextArchive, exitCode, pickVars, classVars, freshVars,
                   fetchVars>>

\* sync_products: writeJsonPretty(ARCHIVE_PATH, nextArchive)
sync_writeArchive ==
    /\ script = "sync_products"
    /\ pc = "write_archive"
    /\ archive_json' = nextArchive
    /\ pc' = "generate_pages"
    /\ UNCHANGED <<script, pages, ogFiles, products_json, clock, csvText, prevProducts,
                   prevArchive, nextProducts, nextArchive, exitCode, pickVars, classVars,
                   freshVars, fetchVars>>

\* sync_products: await generatePPagesAndOgImages(nextProducts, nextArchive), then
\* the run ends; `served` is whether the image hosts answer this run's downloads
sync_generatePages(served) ==
    /\ script = "sync_products"
    /\ pc = "generate_pages"
    /\ LET out == generatePPagesAndOgImages(nextProducts, nextArchive, ogFiles, served)
       IN  /\ pages' = out.pages
           /\ ogFiles' = out.ogFiles
    /\ pc' = "exited"
    /\ exitCode' = 0
    /\ UNCHANGED <<script, products_json, archive_json, clock, csvText, prevProducts,
                   prevArchive, nextProducts, nextArchive, pickVars, classVars, freshVars,
                   fetchVars>>

\* sync_products when writeJsonPretty(PRODUCTS_PATH) throws: nothing is written,
\* main's catch handler exits with status 1
sync_writeProductsThrows ==
    /\ script = "sync_products"
    /\ pc = "write_products"
    /\ pc' = "exited"
    /\ exitCode' = 1
    /\ UNCHANGED <<script, pages, ogFiles, products_json, archive_json, clock, csvText,
                   prevProducts, prevArchive, nextProducts, nextArchive, pickVars,
                   classVars, freshVars, fetchVars>>

\* sync_products when writeJsonPretty(ARCHIVE_PATH) throws after products.json
\* was written: main's catch handler exits with status 1
sync_writeArchiveThrows ==
    /\ script = "sync_products"
    /\ pc = "write_archive"
    /\ pc' = "exited"
    /\ exitCode' = 1
    /\ UNCHANGED <<script, pages, ogFiles, products_json, archive_json, clock, csvText,
                   prevProducts, prevArchive, nextProducts, nextArchive, pickVars,
                   classVars, freshVars, fetchVars>>

Next ==
    \/ \E body \in Feeds : main_readInputs(body)
    \/ main_fetchThrows
    \/ main_reconcile
    \/ main_writeProducts
    \/ main_writeArchive
    \/ main_writeProductsThrows
    \/ main_writeArchiveThrows
    \/ \E body \in Feeds : sync_fetchText(body)
    \/ sync_fetchThrows
    \/ sync_rebuild
    \/ sync_writeProducts
    \/ sync_writeArchive
    \/ \E served \in BOOLEAN : sync_generatePages(served)
    \/ sync_writeProductsThrows
    \/ sync_writeArchiveThrows

Spec == Init /\ [][Next]_vars

(***************************************************************************)
(* The sync run together with the page tool that the workflow of           *)
(* sync_from_csv runs once a run has succeeded                             *)
(***************************************************************************)

\* generate_product_pages.mjs: products.json is read, /p is removed and rebuilt
\* from its items
tool_generatePages ==
    /\ script = "sync_from_csv"
    /\ pc = "exited"
    /\ exitCode = 0
    /\ pages' = toolLoop(products_json, Len(products_json)).pages
    /\ UNCHANGED <<script, ogFiles, products_json, archive_json, clock, csvText, prevProducts,
                   prevArchive, nextProducts, nextArchive, pc, exitCode, pickVars,
                   classVars, freshVars, fetchVars>>

NextPages ==
    \/ Next
    \/ tool_generatePages

SpecPages == Init /\ [][NextPages]_vars

(***************************************************************************)
(* Re-runs: a first run on any feed, then runs on the identical feed with  *)
(* the snapshots of the run before as prior state                          *)
(***************************************************************************)
main_firstRun(body) == clock = 0 /\ main_readInputs(body)

main_rerun == pc = "exited" /\ exitCode = 0 /\ main_readInputs(csvText)

sync_firstRun(body) == clock = 0 /\ sync_fetchText(body)

sync_rerun == pc = "exited" /\ exitCode = 0 /\ sync_fetchText(csvText)

NextRerun ==
    \/ \E body \in Feeds : main_firstRun(body)
    \/ main_rerun
    \/ main_reconcile
    \/ main_writeProducts
    \/ main_writeArchive
    \/ \E body \in Feeds : sync_firstRun(body)
    \/ sync_rerun
    \/ sync_rebuild
    \/ sync_writeProducts
    \/ sync_writeArchive
    \/ \E served \in BOOLEAN : sync_generatePages(served)

SpecRerun == Init /\ [][NextRerun]_vars

(***************************************************************************)
(* Runs without prior state: before each run no snapshot file exists (both *)
(* scripts read [] then), and every run reads the same feed.  snapshots    *)
(* keeps what the earlier runs wrote.                                      *)
(***************************************************************************)
\* what a completed run has written, appended to the snapshots of earlier runs
snapshotsSoFar ==
    IF pc = "exited" /\ exitCode = 0
    THEN Append(snapshots, [products |-> products_json, archive |-> archive_json])
    ELSE snapshots

\* sync_from_csv starts in a checkout that holds no generated file
main_freshStart(body) ==
    /\ script = "sync_from_csv"
    /\ pc \in {"idle", "exited"}
    /\ clock < MaxRuns
    /\ clock = 0 \/ body = csvText
    /\ snapshots' = snapshotsSoFar
    /\ products_json' = <<>>
    /\ archive_json' = <<>>
    /\ clock' = clock + 1
    /\ prevProducts' = <<>>
    /\ prevArchive' = <<>>
    /\ csvText' = body
    /\ nextProducts' = <<>>
    /\ nextArchive' = <<>>
    /\ exitCode' = -1
    /\ pc' = "loaded"
    /\ pages' = {}
    /\ ogFiles' = {}
    /\ UNCHANGED <<script, pickVars, classVars, fetchVars>>

\* sync_products starts in a site directory that holds no generated file and
\* fetches the feed
sync_freshStart(body) ==
    /\ script = "sync_products"
    /\ pc \in {"idle", "exited"}
    /\ clock < MaxRuns
    /\ clock = 0 \/ body = csvText
    /\ snapshots' = snapshotsSoFar
    /\ products_json' = <<>>
    /\ archive_json' = <<>>
    /\ clock' = clock + 1
    /\ prevProducts' = <<>>
    /\ prevArchive' = <<>>
    /\ csvText' = body
    /\ nextProducts' = <<>>
    /\ nextArchive' = <<>>
    /\ exitCode' = -1
    /\ pc' = "fetched"
    /\ pages' = {}
    /\ ogFiles' = {}
    /\ UNCHANGED <<script, pickVars, classVars, fetchVars>>

NextFresh ==
    \/ \E body \in Feeds : main_freshStart(body)
    \/ main_reconcile
    \/ main_writeProducts
    \/ main_writeArchive
    \/ \E body \in Feeds : sync_freshStart(body)
    \/ sync_rebuild
    \/ sync_writeProducts
    \/ sync_writeArchive
    \/ \E served \in BOOLEAN : sync_generatePages(served)

SpecFresh == Init /\ [][NextFresh]_vars

(***************************************************************************)
(* src/scripts/sync_products.mjs: fetchTextWithRetry(url, retry).  Every   *)
(* call in progress is a frame of fetchStack: its url, its retry, the loop *)
(* counter i and lastErr.  The innermost call runs; a call that ended      *)
(* leaves its outcome in fetchResult for the tryOnce of the call below it. *)
(***************************************************************************)

\* the largest retry a caller passes (main passes 4)
MaxRetry == 4

\* the most redirects followed one inside the other
MaxRedirects == 2

\* the addresses requests go to, the bodies they answer and the errors they raise
Urls == {"u", "v"}

Bodies == {"csv"}

RequestErrors == {"ECONNRESET", "Request timeout"}

\* no call has ended since the innermost call started its current attempt
pending == [kind |-> "pending", value |-> undefined]

frame(url, retry) == [url |-> url, retry |-> retry, i |-> 0, lastErr |-> undefined]

top == fetchStack[Len(fetchStack)]

popped == SubSeq(fetchStack, 1, Len(fetchStack) - 1)

\* the innermost call is inside its loop and about to run tryOnce
attempting ==
    /\ fetchStack # <<>>
    /\ fetchResult = pending
    /\ top.i <= top.retry

\* lib.get(url, ...): one more request to the url of the innermost call
requested == [fetchCount EXCEPT ![top.url] = @ + 1]

\* main: csvText = await fetchTextWithRetry(url, 4); other callers pass other retries
fetch_call(url, retry) ==
    /\ script = "sync_from_csv"
    /\ pc = "idle"
    /\ fetchStack = <<>>
    /\ fetchResult = noObject
    /\ fetchStack' = <<frame(url, retry)>>
    /\ fetchCount' = [u \in Urls |-> 0]
    /\ fetchResult' = pending
    /\ UNCHANGED <<runVars, pickVars, classVars, freshVars>>

\* tryOnce: the response is no redirect; res.on("end") resolves with the body and
\* the call returns it
tryOnce_resolves(body) ==
    /\ attempting
    /\ fetchCount' = requested
    /\ fetchStack' = popped
    /\ fetchResult' = [kind |-> "returned", value |-> body]
    /\ UNCHANGED <<runVars, pickVars, classVars, freshVars>>

\* tryOnce: the request raises an error, or times out and is destroyed with one;
\* the promise rejects, the loop records the error and goes on
tryOnce_rejects(e) ==
    /\ attempting
    /\ fetchCount' = requested
    /\ fetchStack' = [fetchStack EXCEPT ![Len(fetchStack)] =
                                        [@ EXCEPT !.lastErr = e, !.i = @ + 1]]
    /\ UNCHANGED <<fetchResult, runVars, pickVars, classVars, freshVars>>

\* tryOnce: a 3xx response with a location; the promise resolves with a new call
\* fetchTextWithRetry(location, 1)
tryOnce_redirects(location) ==
    /\ attempting
    /\ Len(fetchStack) <= MaxRedirects
    /\ fetchCount' = requested
    /\ fetchStack' = Append(fetchStack, frame(location, 1))
    /\ UNCHANGED <<fetchResult, runVars, pickVars, classVars, freshVars>>

\* the loop has run retry + 1 times: throw lastErr
fetch_throwsLastErr ==
    /\ fetchStack # <<>>
    /\ fetchResult = pending
    /\ top.i > top.retry
    /\ fetchStack' = popped
    /\ fetchResult' = [kind |-> "thrown", value |-> top.lastErr]
    /\ UNCHANGED <<fetchCount, runVars, pickVars, classVars, freshVars>>

\* the call made for a redirect returned: the tryOnce that made it resolves with
\* the same body, and its call returns it
redirect_returned ==
    /\ fetchStack # <<>>
    /\ fetchResult.kind = "returned"
    /\ fetchStack' = popped
    /\ UNCHANGED <<fetchCount, fetchResult, runVars, pickVars, classVars, freshVars>>

\* the call made for a redirect threw: the tryOnce that made it rejects with the
\* same error, the loop records it and goes on
redirect_threw ==
    /\ fetchStack # <<>>
    /\ fetchResult.kind = "thrown"
    /\ fetchStack' = [fetchStack EXCEPT ![Len(fetchStack)] =
                                        [@ EXCEPT !.lastErr = fetchResult.value, !.i = @ + 1]]
    /\ fetchResult' = pending
    /\ UNCHANGED <<fetchCount, runVars, pickVars, classVars, freshVars>>

NextRetry ==
    \/ \E url \in Urls, retry \in 0..MaxRetry : fetch_call(url, retry)
    \/ \E body \in Bodies : tryOnce_resolves(body)
    \/ \E e \in RequestErrors : tryOnce_rejects(e)
    \/ \E location \in Urls : tryOnce_redirects(location)
    \/ fetch_throwsLastErr
    \/ redirect_returned
    \/ redirect_threw

SpecRetry == Init /\ [][NextRetry]_vars

(***************************************************************************)
(* The duplicate resolver on its own: pickBetter applied to two candidate  *)
(* records of one identity key, in both orders                             *)
(***************************************************************************)
candidateRecords ==
    { [market |-> "US", asin |-> "B1", title |-> t, link |-> l, image_url |-> i] :
        t \in {"tv", "pc", "tvs", " tv "}, l \in {"", "http://a", "a.example"}, i \in {"", "i"} }

InitPick ==
    /\ script = "sync_products"
    /\ idleRun
    /\ idleClass
    /\ candX \in candidateRecords
    /\ candY \in candidateRecords
    /\ kept = <<>>
    /\ idleFresh
    /\ idleFetch

\* the duplicate branch of the row loop, for X seen first and for Y seen first
sync_pickBetter ==
    /\ kept = <<>>
    /\ kept' = <<pickBetter(candX, candY), pickBetter(candY, candX)>>
    /\ UNCHANGED <<runVars, candX, candY, classVars, freshVars, fetchVars>>

NextPick == sync_pickBetter

SpecPick == InitPick /\ [][NextPick]_vars

(***************************************************************************)
(* The classifier on its own: each script's row loop on one row's asin and *)
(* status cells                                                            *)
(***************************************************************************)
statusCells ==
    { "", " ", "off", "OFF", " off ", "offline", "inactive", "Inactive", "disabled", "down",
      "removed", "delete", "deleted", "0", "false", "no", "stop", "stopped", "1", "true",
      "yes", "on", "active", "Active", "enabled", "publish", "published", "online",
      "sold", "normal", "not available", "10" }

asinCells == {"B1", "12", "b0a"}

InitClassify ==
    /\ script \in Scripts
    /\ idleRun
    /\ idlePick
    /\ cellStatus \in statusCells
    /\ cellAsin \in asinCells
    /\ verdict = ""
    /\ idleFresh
    /\ idleFetch

\* sync_from_csv: the row loop sends the row to the archive exactly when
\* isOfflineByStatus holds of its status cell
main_classify ==
    /\ script = "sync_from_csv"
    /\ verdict = ""
    /\ verdict' = IF isOfflineByStatus(cellStatus) THEN "status_offline" ELSE "active"
    /\ UNCHANGED <<runVars, pickVars, cellStatus, cellAsin, freshVars, fetchVars>>

\* sync_products: the row loop's branches on the normalized asin and the status cell
sync_classify ==
    /\ script = "sync_products"
    /\ verdict = ""
    /\ verdict' = classifyRow(normalizeAsin(cellAsin), cellStatus)
    /\ UNCHANGED <<runVars, pickVars, cellStatus, cellAsin, freshVars, fetchVars>>

NextClassify == main_classify \/ sync_classify

SpecClassify == InitClassify /\ [][NextClassify]_vars

(***************************************************************************)
(* Vocabulary of the properties                                            *)
(***************************************************************************)

\* the identity key of the data model: market|id, both upper-cased
identityKey(rec) == toUpperCase(trim(rec.market)) \o "|" \o toUpperCase(trim(rec.asin))

identityKeys(arr) == {identityKey(arr[j]) : j \in 1..Len(arr)}

\* the key under which the running script files a record in its maps
mapKey(rec) == IF script = "sync_from_csv" THEN makeKey(rec.market, rec.asin) ELSE keyOf(rec)

mapKeys(arr) == {mapKey(arr[j]) : j \in 1..Len(arr)}

\* a run has written both snapshots and ended with exit status 0
Completed == pc = "exited" /\ exitCode = 0

\* the reason tag of an archive entry, in the words of the data model
reasonTag(e) ==
    IF "archived_reason" \in DOMAIN e
    THEN (IF e.archived_reason = "status_offline" THEN "explicitly-offline"
          ELSE IF e.archived_reason = "removed_from_csv" THEN "disappeared-from-feed"
          ELSE "none")
    ELSE IF "_hidden_reason" \in DOMAIN e
    THEN (IF e._hidden_reason = "non_amazon_numeric_asin" THEN "structurally-excluded"
          ELSE IF e._hidden_reason = "inactive_status" THEN "explicitly-offline"
          ELSE "none")
    ELSE "none"

reasonTags == {"structurally-excluded", "explicitly-offline", "disappeared-from-feed"}

\* the data rows of the fetched body as the running script reads them: the record of
\* each row, how the row loop classifies it, and whether the loop skips it
feedRows ==
    IF script = "sync_from_csv"
    THEN IF csvRejected(csvText) THEN <<>>
         ELSE LET grid == csvGrid(csvText)
                  hm   == csvHeaderMap(grid)
              IN  [r \in 1..(Len(grid) - 1) |->
                     [ item    |-> csvItem(grid[r + 1], hm),
                       class   |-> IF isOfflineByStatus(getField(grid[r + 1], hm, "status"))
                                   THEN "explicitly-offline" ELSE "active",
                       skipped |-> csvItem(grid[r + 1], hm).market = ""
                                     \/ csvItem(grid[r + 1], hm).asin = "" ]]
    ELSE IF parseCSV(csvText) = <<>> THEN <<>>
         ELSE LET headers  == syncHeaders(parseCSV(csvText))
                  dataRows == syncDataRows(parseCSV(csvText))
              IN  [r \in 1..Len(dataRows) |->
                     LET item == syncRowItem(headers, dataRows[r])
                         c    == classifyRow(item.asin, syncRowStatus(headers, dataRows[r]))
                     IN  [ item    |-> item,
                           class   |-> IF c = "non_amazon_numeric_asin" THEN "structurally-excluded"
                                       ELSE IF c = "inactive_status" THEN "explicitly-offline"
                                       ELSE "active",
                           skipped |-> item.market = "" \/ item.asin = "" ]]

\* the rows the loop does not skip
readRows == {r \in 1..Len(feedRows) : ~feedRows[r].skipped}

\* an archive or active record carries the title, link and image of a feed row
sameCells(rec, item) ==
    rec.title = item.title /\ rec.link = item.link /\ rec.image_url = item.image_url

\* the precedence key of the duplicate resolver: link validity, image presence,
\* trimmed title length
precedenceKey(rec) ==
    << IF isValidHttpUrl(rec.link) THEN 1 ELSE 0,
       IF norm(rec.image_url) # "" THEN 1 ELSE 0,
       Len(norm(rec.title)) >>

(***************************************************************************)
(* Properties of a run                                                     *)
(***************************************************************************)

NoLoss ==
    Completed =>
        identityKeys(prevProducts) \subseteq
            identityKeys(products_json) \cup identityKeys(archive_json)

\* C2 witness: a previously active key left the feed and is in the new archive, while
\* another previously active key is still active
NoLossWitness ==
    /\ Completed
    /\ \E k \in identityKeys(prevProducts) :
          k \notin identityKeys(products_json) /\ k \in identityKeys(archive_json)
    /\ \E k \in identityKeys(prevProducts) : k \in identityKeys(products_json)

\* C3: no step removes an identity key from the persisted archive
ArchiveRetention ==
    [][identityKeys(archive_json) \subseteq identityKeys(archive_json')]_vars

\* C3 witness: a later run has completed on a feed without a key of the previous
\* archive, and the key is still archived
ArchiveRetentionWitness ==
    /\ Completed
    /\ \E k \in identityKeys(prevArchive) :
          /\ \A r \in readRows : identityKey(feedRows[r].item) # k
          /\ k \in identityKeys(archive_json)

\* C4 (as claimed): while a run on an empty body, an HTML page or a body without the
\* asin column is in progress, no step changes products.json or archive.json, and
\* the run ends with a failure exit
FailClosedOnInvalidFeed ==
    [][(csvText \in invalidFeeds /\ pc \notin {"idle", "exited"}) =>
          /\ products_json' = products_json
          /\ archive_json' = archive_json
          /\ (pc' = "exited" => exitCode' = 1)]_vars

\* C5 (as claimed): after a completed run, a previously active key with a feed row
\* classified offline has an archive entry tagged explicitly-offline that carries
\* the cells of such a row
OfflineBeatsDisappeared ==
    Completed =>
        \A r \in readRows :
            (feedRows[r].class = "explicitly-offline"
               /\ mapKey(feedRows[r].item) \in mapKeys(prevProducts)) =>
            \E j \in 1..Len(archive_json) :
                /\ mapKey(archive_json[j]) = mapKey(feedRows[r].item)
                /\ reasonTag(archive_json[j]) = "explicitly-offline"
                /\ \E q \in readRows :
                      /\ feedRows[q].class = "explicitly-offline"
                      /\ mapKey(feedRows[q].item) = mapKey(feedRows[r].item)
                      /\ sameCells(archive_json[j], feedRows[q].item)

\* C6 (as claimed): after a completed run, a feed row whose asin is all digits is
\* absent from the new active set and archived as structurally-excluded
DigitsAreExcluded ==
    Completed =>
        \A r \in readRows :
            isAllDigits(feedRows[r].item.asin) =>
                /\ identityKey(feedRows[r].item) \notin identityKeys(products_json)
                /\ \E j \in 1..Len(archive_json) :
                      /\ identityKey(archive_json[j]) = identityKey(feedRows[r].item)
                      /\ reasonTag(archive_json[j]) = "structurally-excluded"

\* the active rows of the feed with identity key k, and the first of them among
\* those of the greatest precedence key
activeRowsOf(k) ==
    {r \in readRows : feedRows[r].class = "active" /\ identityKey(feedRows[r].item) = k}

firstBestRow(k) ==
    CHOOSE r \in activeRowsOf(k) :
        \A q \in activeRowsOf(k) :
            LET c == lexCompare(precedenceKey(feedRows[q].item), precedenceKey(feedRows[r].item))
            IN  c < 0 \/ (c = 0 /\ r <= q)

\* C8 (as claimed): when several active rows of a run share an identity key, the
\* record kept in the new active set is the first of those with the greatest
\* precedence key
DuplicatePrecedence ==
    Completed =>
        \A j \in 1..Len(products_json) :
            LET k == identityKey(products_json[j])
            IN  Cardinality(activeRowsOf(k)) >= 2 =>
                    sameCells(products_json[j], feedRows[firstBestRow(k)].item)

\* C9 (as claimed): after a completed run every archive entry carries one of the
\* three reason tags, and a previously active key that is neither in the feed nor in
\* the previous archive is archived as disappeared-from-feed
ReasonTagInvariant ==
    Completed =>
        /\ \A j \in 1..Len(archive_json) : reasonTag(archive_json[j]) \in reasonTags
        /\ \A k \in identityKeys(prevProducts) \ identityKeys(prevArchive) :
              (\A r \in readRows : identityKey(feedRows[r].item) # k) =>
                  \E j \in 1..Len(archive_json) :
                      /\ identityKey(archive_json[j]) = k
                      /\ reasonTag(archive_json[j]) = "disappeared-from-feed"

(***************************************************************************)
(* Properties of the duplicate resolver (under SpecPick)                   *)
(***************************************************************************)

\* C7 (as claimed): resolving X then Y keeps the same record as resolving Y then X
DuplicateDeterminism == kept # <<>> => kept[1] = kept[2]

\* C7 (amended): the two orders keep records of the same precedence key, and the
\* same record whenever the precedence keys of X and Y differ; when the keys are
\* equal each order keeps its first record
DuplicateDeterminismAmended ==
    kept # <<>> =>
        /\ precedenceKey(kept[1]) = precedenceKey(kept[2])
        /\ precedenceKey(candX) # precedenceKey(candY) => kept[1] = kept[2]
        /\ precedenceKey(candX) = precedenceKey(candY) => (kept[1] = candX /\ kept[2] = candY)

\* C7 witness: both orders were resolved for two records of different precedence keys
DuplicateDeterminismWitness ==
    /\ kept # <<>>
    /\ precedenceKey(candX) # precedenceKey(candY)
    /\ kept[1] = candY
    /\ kept[2] = candY

(***************************************************************************)
(* Properties of the classifier (under SpecClassify)                       *)
(***************************************************************************)

\* the negative tokens as the claim lists them
claimedOfflineTokens ==
    <<"off", "offline", "inactive", "disabled", "down", "removed", "deleted", "0",
      "false", "no", "stop", "stopped">>

claimedOffline(raw) ==
    LET t == toLowerCase(trim(raw))
    IN  t # "" /\ \E j \in 1..Len(claimedOfflineTokens) :
                     t = claimedOfflineTokens[j] \/ includes(t, claimedOfflineTokens[j])

\* C10 (as claimed): a row whose asin is not all digits is classified offline exactly
\* when its status, trimmed and lower-cased, equals or contains one of the listed
\* tokens, and active otherwise
StatusClassification ==
    (verdict # "" /\ ~isAllDigits(cellAsin)) =>
        /\ verdict \in {"status_offline", "inactive_status"} <=> claimedOffline(cellStatus)
        /\ ~claimedOffline(cellStatus) => verdict = "active"

(***************************************************************************)
(* Properties of the archive upsert, of repeated runs and of the keys      *)
(***************************************************************************)

\* the value of a timestamp field of an archive entry, <<>> when the entry has none
stamp(e, field) == IF field \in DOMAIN e THEN <<e[field]>> ELSE <<>>

\* C11 (as claimed): after a completed run, when a feed row classified excluded or
\* offline meets an archive entry of its key that already has that reason, the entry
\* keeps its reason and its archived-at timestamp, carries the cells of such a row,
\* and its last-observed timestamp (when it has one) is the time of this run
UpsertStickiness ==
    Completed =>
        \A r \in readRows : \A i \in 1..Len(prevArchive) :
            (/\ feedRows[r].class # "active"
             /\ mapKey(prevArchive[i]) = mapKey(feedRows[r].item)
             /\ reasonTag(prevArchive[i]) = feedRows[r].class) =>
            \E j \in 1..Len(archive_json) :
                /\ mapKey(archive_json[j]) = mapKey(feedRows[r].item)
                /\ reasonTag(archive_json[j]) = feedRows[r].class
                /\ stamp(archive_json[j], "archived_at") = stamp(prevArchive[i], "archived_at")
                /\ stamp(archive_json[j], "last_seen_at") \in {<<>>, <<nowISO>>}
                /\ \E q \in readRows :
                      /\ feedRows[q].class # "active"
                      /\ mapKey(feedRows[q].item) = mapKey(feedRows[r].item)
                      /\ sameCells(archive_json[j], feedRows[q].item)

\* C12 (as claimed, under SpecRerun): a run on the feed of the run before it, with
\* that run's snapshots as prior state, writes the snapshots it read
RerunStability ==
    (clock >= 2 /\ pc = "exited" /\ exitCode = 0) =>
        /\ products_json = prevProducts
        /\ archive_json = prevArchive

\* C13 (as claimed, under SpecFresh): a completed run that started without prior
\* state has written the snapshots that every earlier such run on the same feed wrote
IdempotentFromEmpty ==
    (pc = "exited" /\ exitCode = 0) =>
        \A i \in 1..Len(snapshots) :
            /\ snapshots[i].products = products_json
            /\ snapshots[i].archive = archive_json

\* no two records of the array have the same identity key
uniqueKeys(arr) ==
    \A i, j \in 1..Len(arr) : identityKey(arr[i]) = identityKey(arr[j]) => i = j

\* C14 (as claimed): after a completed run neither the new active set nor the new
\* archive set has two records of one identity key (market and id upper-cased)
IdentityKeyUniqueness ==
    Completed => uniqueKeys(products_json) /\ uniqueKeys(archive_json)

(***************************************************************************)
(* Properties of the failure paths                                         *)
(***************************************************************************)

\* the running script has accepted the body it obtained
feedAccepted ==
    /\ csvText # undefined
    /\ IF script = "sync_from_csv" THEN ~csvRejected(csvText) ELSE parseCSV(csvText) # <<>>

\* C15: a run that obtains no feed body ends at once with exit status 1 and leaves
\* products.json and archive.json as they were, and a step changes one of the two
\* files only in the write phase of a run that obtained a body and accepted it
FailClosedOnFetchFailure ==
    [][/\ (clock' # clock /\ csvText' = undefined) =>
              /\ pc' = "exited"
              /\ exitCode' = 1
              /\ products_json' = products_json
              /\ archive_json' = archive_json
       /\ (products_json' # products_json \/ archive_json' # archive_json) =>
              /\ feedAccepted
              /\ pc \in {"write_products", "write_archive"}]_vars

\* C15 witness: a run whose fetch failed has exited with status 1 while the snapshots
\* of an earlier run, which are not empty, are still on disk
FailClosedOnFetchFailureWitness ==
    /\ pc = "exited"
    /\ exitCode = 1
    /\ csvText = undefined
    /\ clock >= 2
    /\ products_json # <<>>
    /\ archive_json # <<>>

\* C16 (as claimed): when a run that accepted its feed has ended, in failure or not,
\* the two files on disk are the pair the run read or the pair the run computed
NoPartialSnapshot ==
    (pc = "exited" /\ feedAccepted) =>
        \/ products_json = prevProducts /\ archive_json = prevArchive
        \/ products_json = nextProducts /\ archive_json = nextArchive

(***************************************************************************)
(* The active set as a function of the feed                                *)
(***************************************************************************)

\* the active array the running script computes from the body when both snapshots
\* are empty
activeFromFeedAlone ==
    IF script = "sync_from_csv"
    THEN csvReconcile(csvText, <<>>, <<>>).newProducts
    ELSE syncReconcile(parseCSV(csvText), <<>>, <<>>).nextProducts

\* C17: after a completed run, whatever the previous snapshots were, products.json is
\* the active array the script computes from the feed alone, and its identity keys
\* are exactly those of the feed rows the run classified active
ActiveMirrorsFeed ==
    Completed =>
        /\ products_json = activeFromFeedAlone
        /\ identityKeys(products_json) =
              {identityKey(feedRows[r].item) : r \in {q \in readRows : feedRows[q].class = "active"}}

\* C17 witness: a run that started from non-empty snapshots has completed with a
\* non-empty active set whose keys are not those of the previous active set
ActiveMirrorsFeedWitness ==
    /\ Completed
    /\ prevProducts # <<>>
    /\ prevArchive # <<>>
    /\ products_json # <<>>
    /\ identityKeys(products_json) # identityKeys(prevProducts)

\* the directories under /p that hold a page
pagePaths == {q.path : q \in pages}

\* the page directory of a record's identity
pageOfIdentity(rec) == pageDir(toUpperCase(trim(rec.market)), toUpperCase(trim(rec.asin)))

\* one page directory for every identity of the two snapshots
pagesOfSnapshots ==
    {pageOfIdentity(products_json[j]) : j \in 1..Len(products_json)}
        \cup {pageOfIdentity(archive_json[j]) : j \in 1..Len(archive_json)}

\* a step of either page generator
generatesPages == tool_generatePages \/ \E served \in BOOLEAN : sync_generatePages(served)

\* C18 (persistent preview pages): a page-generation step after a successful run
\* leaves exactly one page for every identity key of active and archive together,
\* whatever became of the image downloads, and no identity that had a page is left
\* without one
PersistentPreviewPages ==
    [][generatesPages => (pagePaths' = pagesOfSnapshots' /\ pagePaths \subseteq pagePaths')]_vars

\* the call main made: the outermost frame
givenCall == fetchStack[1]

\* C19 (bounded fetch retries): while a call fetchTextWithRetry(url, retry) runs, at
\* most retry + 1 requests go to its url; it returns only a body that an attempt
\* received and throws only after retry + 1 failed attempts, and then the last error
BoundedFetchRetries ==
    [][fetchStack # <<>> =>
          /\ fetchCount'[givenCall.url] <= givenCall.retry + 1
          /\ (fetchStack' = <<>> /\ fetchResult'.kind = "returned")
                => fetchResult'.value \in Bodies
          /\ (fetchStack' = <<>> /\ fetchResult'.kind = "thrown")
                => (givenCall.i = givenCall.retry + 1 /\ fetchResult'.value = givenCall.lastErr)
      ]_vars

====
